---- MODULE Spec2Model ----
(***************************************************************************)
(* The store-action binding of the mapDispatchToProps / useDispatch        *)
(* lessons: action creators, the wrapper bindActionCreators() builds, the  *)
(* variants of mapDispatchToProps the lessons walk through, connect() and  *)
(* the click handlers of the demo components.                              *)
(*                                                                         *)
(* JavaScript values are records tagged by t; a call's outcome is a        *)
(* completion (return or throw) together with the calls it made, in order. *)
(***************************************************************************)
EXTENDS Naturals, Sequences, FiniteSets, TLC

\* ------------------------------------------------------------------ bounds
\* Invocations (prop calls and clicks) in one behaviour.
MaxCalls == 2

\* ----------------------------------------------------------------- state
VARIABLES
    slots,       \* the component instances the application renders
    comp,        \* slot -> the component mounted there, or "unmounted"
    second,      \* slot -> the second argument its connect() was given
    storeOf,     \* slot -> the store its Provider supplies
    stateOf,     \* slot -> the store's state when it was connected
    props,       \* slot -> the props the component sees
    binds,       \* calls of bindActionCreators so far
    calls,       \* invocations (prop calls and clicks) so far
    created,     \* the descriptors action creators returned, in call order
    dispatched,  \* the calls of dispatch: store and argument, in call order
    last         \* the latest invocation: its inputs, its calls, its outcome

vars == <<slots, comp, second, storeOf, stateOf, props, binds, calls, created, dispatched, last>>

\* ------------------------------------------------------------- JS values
Undefined == [t |-> "undefined"]

Num(n) == [t |-> "number", v |-> n]

Return(v) == [c |-> "return", v |-> v]

Throw(e) == [c |-> "throw", v |-> e]

\* Calling undefined, or reading a property of undefined.
TypeError == [t |-> "error", name |-> "TypeError"]

\* The error a failing dispatch raises.
DispatchError == [t |-> "error", name |-> "DispatchError"]

\* The i-th parameter of a call: undefined when the caller passed fewer.
Param(args, i) == IF i <= Len(args) THEN args[i] ELSE Undefined

\* ------------------------------------------------------- action creators
addItem(args) == [t |-> "object", type |-> "ADD_ITEM"]

incrementCount(args) == [t |-> "object", type |-> "count/increment"]

setCount(args) == [t |-> "object", type |-> "SET_COUNT", payload |-> Param(args, 1)]

\* actionCreator.apply(undefined, arguments)
ActionCreator(name, args) ==
    CASE name = "addItem" -> addItem(args)
      [] name = "incrementCount" -> incrementCount(args)
      [] name = "setCount" -> setCount(args)

\* The error an action creator raises when it cannot build its descriptor.
CreatorError == [t |-> "error", name |-> "CreatorError"]

\* The values a map entry names: the action creators above, an action
\* creator that raises, and anything else, which is not a function.
Raising(name) == name = "failing"

Callable(name) == name \in {"addItem", "incrementCount", "setCount", "failing"}

\* A call of a map entry, were an entry that is not a function taken for
\* the descriptor itself.
CallCreatorReturnsEntry(name, args) ==
    CASE ~Callable(name) ->
            [events |-> <<>>, completion |-> Return([t |-> "object", type |-> name])]
      [] Raising(name) ->
            [events |-> <<[op |-> "create", creator |-> name, args |-> args]>>,
             completion |-> Throw(CreatorError)]
      [] OTHER ->
            [events |-> <<[op |-> "create", creator |-> name, args |-> args]>>,
             completion |-> Return(ActionCreator(name, args))]

\* A call of an action creator: the call it makes visible, and its result.
\* actionCreator.apply raises a TypeError, and nothing is called, when
\* actionCreator is not a function.
CallCreator(name, args) ==
    CASE ~Callable(name) ->
            [events |-> <<>>, completion |-> Throw(TypeError)]
      [] Raising(name) ->
            [events |-> <<[op |-> "create", creator |-> name, args |-> args]>>,
             completion |-> Throw(CreatorError)]
      [] OTHER ->
            [events |-> <<[op |-> "create", creator |-> name, args |-> args]>>,
             completion |-> Return(ActionCreator(name, args))]

\* ---------------------------------------------------------------- store
Stores == {"s1", "s2"}

\* What one call of a store's dispatch does, as the state container decides:
\* it returns the action (plain Redux), nothing, a pending handle
\* (middleware), or it raises.
DispatchOutcomes == {"action", "undefined", "promise", "throw"}

\* The dispatch function of store s, as a value.
DispatchFn(s) == [t |-> "function", kind |-> "dispatch", store |-> s]

dispatch(s, action, out) ==
    [events |-> <<[op |-> "dispatch", store |-> s, action |-> action]>>,
     completion |->
        CASE out = "action" -> Return(action)
          [] out = "undefined" -> Return(Undefined)
          [] out = "promise" -> Return([t |-> "promise", of |-> action])
          [] out = "throw" -> Throw(DispatchError)]

\* ------------------------------------------------------- function values
\* An action creator handed on as it is.
Creator(name) == [t |-> "function", kind |-> "creator", creator |-> name]

\* function () { return dispatch(actionCreator.apply(undefined, arguments)); }
Bound(name, d) == [t |-> "function", kind |-> "bound", creator |-> name, dispatch |-> d]

\* () => { dispatch(addItem()) }
HandWritten(d) == [t |-> "function", kind |-> "handwritten", creator |-> "addItem", dispatch |-> d]

\* The wrapper, were it to call the action creator without its arguments.
BoundWrapperNoArgs(fn, args, out) ==
    LET made == CallCreator(fn.creator, <<>>)
        sent == dispatch(fn.dispatch.store, made.completion.v, out)
    IN  [events |-> made.events \o sent.events, completion |-> sent.completion]

\* The wrapper, were it to return the descriptor instead of dispatch's result.
BoundWrapperRawDescriptor(fn, args, out) ==
    LET made == CallCreator(fn.creator, args)
        sent == dispatch(fn.dispatch.store, made.completion.v, out)
    IN  [events |-> made.events \o sent.events,
         completion |-> IF sent.completion.c = "throw" THEN sent.completion
                        ELSE made.completion]

\* The wrapper, were it to dispatch again after a failed dispatch.
BoundWrapperRetries(fn, args, out) ==
    LET made == CallCreator(fn.creator, args)
        sent == dispatch(fn.dispatch.store, made.completion.v, out)
    IN  [events |-> IF sent.completion.c = "throw"
                    THEN made.events \o sent.events \o sent.events
                    ELSE made.events \o sent.events,
         completion |-> sent.completion]

\* The wrapper, were it to forward its first argument only.
BoundWrapperFirstArg(fn, args, out) ==
    LET made == CallCreator(fn.creator, IF args = <<>> THEN <<>> ELSE <<args[1]>>)
        sent == dispatch(fn.dispatch.store, made.completion.v, out)
    IN  [events |-> made.events \o sent.events, completion |-> sent.completion]

\* The wrapper, were it to keep the first descriptor made and dispatch that
\* one again instead of calling its action creator.
BoundWrapperMemo(fn, args, out) ==
    IF created = <<>>
    THEN LET made == CallCreator(fn.creator, args)
             sent == dispatch(fn.dispatch.store, made.completion.v, out)
         IN  [events |-> made.events \o sent.events, completion |-> sent.completion]
    ELSE dispatch(fn.dispatch.store, created[1], out)

\* The wrapper, were bindActionCreators to keep dispatch in one variable
\* shared by all the wrappers it makes: the latest binding's dispatch wins.
BoundWrapperSharedDispatch(fn, args, out) ==
    LET made == CallCreator(fn.creator, args)
        d == IF comp[2] # "unmounted" THEN storeOf[2] ELSE fn.dispatch.store
        sent == dispatch(d, made.completion.v, out)
    IN  [events |-> made.events \o sent.events, completion |-> sent.completion]

\* The wrapper, were it to catch what its action creator raises and
\* dispatch that.
BoundWrapperDispatchesError(fn, args, out) ==
    LET made == CallCreator(fn.creator, args)
        sent == dispatch(fn.dispatch.store, made.completion.v, out)
    IN  [events |-> made.events \o sent.events, completion |-> sent.completion]

\* The wrapper bindActionCreators() returns for one action creator: the
\* argument of dispatch is evaluated first, and what it raises leaves the
\* wrapper before dispatch is called.
BoundWrapper(fn, args, out) ==
    LET made == CallCreator(fn.creator, args)
        sent == dispatch(fn.dispatch.store, made.completion.v, out)
    IN  IF made.completion.c = "throw"
        THEN made
        ELSE [events |-> made.events \o sent.events, completion |-> sent.completion]

\* The arrow function the hand-written mapDispatchToProps returns: it takes
\* no parameters and its block body has no return statement.
HandWrittenWrapper(fn, args, out) ==
    LET made == CallCreator(fn.creator, <<>>)
        sent == dispatch(fn.dispatch.store, made.completion.v, out)
    IN  [events |-> made.events \o sent.events,
         completion |-> IF sent.completion.c = "throw" THEN sent.completion
                        ELSE Return(Undefined)]

\* fn(...args) for a value fn.
Call(fn, args, out) ==
    IF fn.t # "function" THEN [events |-> <<>>, completion |-> Throw(TypeError)]
    ELSE CASE fn.kind = "creator" -> CallCreator(fn.creator, args)
           [] fn.kind = "dispatch" -> dispatch(fn.store, Param(args, 1), out)
           [] fn.kind = "bound" -> BoundWrapper(fn, args, out)
           [] fn.kind = "handwritten" -> HandWrittenWrapper(fn, args, out)

\* --------------------------------------------------------------- connect
\* The action creator maps handed to the binding: {addItem: addItem} of the
\* demo, and the maps of the other scenarios.
ItemsMap == [addItem |-> "addItem"]

Maps == {ItemsMap,
         [incrementCount |-> "incrementCount"],
         [addItem |-> "addItem", setCount |-> "setCount"]}

\* The snapshots getState() may return when a component is connected.
StoreStates ==
    {[items |-> <<>>], [items |-> <<"item">>],
     [items |-> <<"item">>, count |-> Num(1)]}

\* const mapStateToProps = state => { return state }: every field of the
\* state becomes a prop.
mapStateToPropsWholeState(state) ==
    [k \in DOMAIN state |->
        IF k = "items" THEN [t |-> "array", elems |-> state.items] ELSE state[k]]

\* function mapStateToProps(state){ return {items: state.items} }
mapStateToProps(state) == [items |-> [t |-> "array", elems |-> state.items]]

\* bindActionCreators, were it to bind one entry and drop the others.
bindActionCreatorsOneKey(actionCreators, d) ==
    LET k0 == CHOOSE k \in DOMAIN actionCreators : TRUE
    IN  [k \in {k0} |-> Bound(actionCreators[k], d)]

\* bindActionCreators, were it to use up the map it is given: a second call
\* finds one entry left.
bindActionCreatorsConsuming(actionCreators, d) ==
    IF binds = 0
    THEN [k \in DOMAIN actionCreators |-> Bound(actionCreators[k], d)]
    ELSE LET k0 == CHOOSE k \in DOMAIN actionCreators : TRUE
         IN  [k \in {k0} |-> Bound(actionCreators[k], d)]

\* bindActionCreators(actionCreators, dispatch): one wrapper per entry.
bindActionCreators(actionCreators, d) ==
    [k \in DOMAIN actionCreators |-> Bound(actionCreators[k], d)]

\* mapDispatchToProps, were binding to call a wrapper it has just made
\* (addItem: dispatch(addItem()) written in place of a function).
mapDispatchToPropsEager(name, map, d) ==
    CASE name = "bind" ->
            LET k0 == CHOOSE k \in DOMAIN map : TRUE
            IN  [props |-> bindActionCreators(map, d), binds |-> 1,
                 events |-> BoundWrapper(Bound(map[k0], d), <<>>, "action").events]
      [] name = "handwritten" ->
            [props |-> [addItem |-> HandWritten(d)], binds |-> 0, events |-> <<>>]
      [] name = "unbound" ->
            [props |-> [k \in DOMAIN map |-> Creator(map[k])], binds |-> 0,
             events |-> <<>>]

\* mapDispatchToProps, were the variant that ignores dispatch to bind its
\* action creators all the same.
mapDispatchToPropsUnboundBinds(name, map, d) ==
    CASE name = "bind" ->
            [props |-> bindActionCreators(map, d), binds |-> 1, events |-> <<>>]
      [] name = "handwritten" ->
            [props |-> [addItem |-> HandWritten(d)], binds |-> 0, events |-> <<>>]
      [] name = "unbound" ->
            [props |-> [k \in DOMAIN map |-> Bound(map[k], d)], binds |-> 0,
             events |-> <<>>]

\* The variants of mapDispatchToProps: the one calling bindActionCreators,
\* the hand-written one, and the one that ignores dispatch. binds counts the
\* calls of bindActionCreators made on the way, events the calls of action
\* creators and of dispatch made on the way.
mapDispatchToProps(name, map, d) ==
    CASE name = "bind" ->
            [props |-> bindActionCreators(map, d), binds |-> 1, events |-> <<>>]
      [] name = "handwritten" ->
            [props |-> [addItem |-> HandWritten(d)], binds |-> 0, events |-> <<>>]
      [] name = "unbound" ->
            [props |-> [k \in DOMAIN map |-> Creator(map[k])], binds |-> 0,
             events |-> <<>>]

\* The second argument of connect(): absent, an object, or a function.
NoSecond == [kind |-> "none"]

ObjectSecond(map) == [kind |-> "object", map |-> map]

FunctionSecond(name, map) == [kind |-> "function", name |-> name, map |-> map]

SecondInputs ==
    {NoSecond}
    \cup {ObjectSecond(m) : m \in Maps}
    \cup {FunctionSecond("bind", m) : m \in Maps}
    \cup {FunctionSecond("unbound", m) : m \in Maps}
    \cup {FunctionSecond("handwritten", ItemsMap)}

\* connect(), were it to hand an object's action creators on without binding.
dispatchPropsObjectUnbound(sec, d) ==
    CASE sec.kind = "none" -> [props |-> [dispatch |-> d], binds |-> 0, events |-> <<>>]
      [] sec.kind = "object" ->
            [props |-> [k \in DOMAIN sec.map |-> Creator(sec.map[k])], binds |-> 0,
             events |-> <<>>]
      [] sec.kind = "function" -> mapDispatchToProps(sec.name, sec.map, d)

\* connect(), were it to treat a missing second argument as an empty object.
dispatchPropsNoDefault(sec, d) ==
    CASE sec.kind = "none" -> [props |-> [k \in {} |-> d], binds |-> 1, events |-> <<>>]
      [] sec.kind = "object" ->
            [props |-> bindActionCreators(sec.map, d), binds |-> 1, events |-> <<>>]
      [] sec.kind = "function" -> mapDispatchToProps(sec.name, sec.map, d)

\* The props connect() derives from its second argument, given the store's
\* dispatch: by default dispatch => ({ dispatch }); an object is bound by
\* connect itself; a function is called with dispatch.
dispatchProps(sec, d) ==
    CASE sec.kind = "none" -> [props |-> [dispatch |-> d], binds |-> 0, events |-> <<>>]
      [] sec.kind = "object" ->
            [props |-> bindActionCreators(sec.map, d), binds |-> 1, events |-> <<>>]
      [] sec.kind = "function" -> mapDispatchToProps(sec.name, sec.map, d)

\* { ...a, ...b }
Merge(a, b) ==
    [k \in DOMAIN a \cup DOMAIN b |-> IF k \in DOMAIN b THEN b[k] ELSE a[k]]

\* The props the parent passes: a store reference (<App store={store} />) or none.
ownProps(hasStore, s) ==
    IF hasStore
    THEN [store |-> [t |-> "object", dispatch |-> DispatchFn(s)]]
    ELSE [k \in {} |-> Undefined]

\* connect(mapStateToProps, second)(Component): the props the component sees.
connect(state, sec, s, hasStore) ==
    LET mapped == dispatchProps(sec, DispatchFn(s))
    IN  [props |-> Merge(Merge(ownProps(hasStore, s), mapStateToProps(state)),
                         mapped.props),
         binds |-> mapped.binds,
         events |-> mapped.events]

\* const dispatch = useDispatch()
useDispatch(s) == DispatchFn(s)

\* ------------------------------------------------------------ components
\* App as in src/App.js (handleOnClick goes through props.store), App as the
\* lesson rewrites it (handleOnClick calls props.addItem), and Counter.
Components == {"AppStore", "AppProp", "Counter"}

\* A handler's own result: it returns nothing unless a call in it raised.
Discard(eff, read) ==
    [events |-> eff.events,
     completion |-> IF eff.completion.c = "throw" THEN eff.completion
                    ELSE Return(Undefined),
     read |-> read]

\* handleOnClick(){ this.props.store.dispatch(addItem()) }
handleOnClickStore(p, out) ==
    IF "store" \notin DOMAIN p
    THEN [events |-> <<>>, completion |-> Throw(TypeError), read |-> {"store"}]
    ELSE LET made == CallCreator("addItem", <<>>)
             sent == Call(p.store.dispatch, <<made.completion.v>>, out)
         IN  Discard([events |-> made.events \o sent.events,
                      completion |-> sent.completion], {"store"})

\* handleOnClick = event => { this.props.addItem() }
handleOnClickProp(p, out) ==
    IF "addItem" \notin DOMAIN p
    THEN [events |-> <<>>, completion |-> Throw(TypeError), read |-> {"addItem"}]
    ELSE Discard(Call(p.addItem, <<>>, out), {"addItem"})

\* Counter's handler, were it to build the action and not dispatch it.
handleOnClickCounterNoDispatch(s, out) ==
    Discard(CallCreator("incrementCount", <<>>), {})

\* function handleOnClick() { dispatch(incrementCount()); }
handleOnClickCounter(s, out) ==
    LET made == CallCreator("incrementCount", <<>>)
        sent == Call(useDispatch(s), <<made.completion.v>>, out)
    IN  Discard([events |-> made.events \o sent.events,
                 completion |-> sent.completion], {})

handleOnClick(c, p, s, out) ==
    CASE c = "AppStore" -> handleOnClickStore(p, out)
      [] c = "AppProp" -> handleOnClickProp(p, out)
      [] c = "Counter" -> handleOnClickCounter(s, out)

\* ------------------------------------------------------------ behaviours
AllSlots == {1, 2}

NoProps == [items |-> Undefined]

NoState == [items |-> <<>>]

NoCall == [kind |-> "none"]

\* The argument lists an invocation is tried with: none, one or two numbers,
\* and the action of this.props.dispatch({ type: 'INCREASE_COUNT' }).
ArgLists == {<<>>, <<Num(5)>>, <<Num(5), Num(7)>>,
             <<[t |-> "object", type |-> "INCREASE_COUNT"]>>}

\* The pairs of component and second argument the lessons connect: the
\* starting code and src/App.js keep the handler that goes through
\* props.store; the rewritten handler comes with each mapDispatchToProps.
Lessons ==
    {<<"AppStore", "none">>, <<"AppStore", "unbound">>, <<"AppStore", "bind">>,
     <<"AppProp", "handwritten">>, <<"AppProp", "object">>,
     <<"AppProp", "unbound">>, <<"AppProp", "bind">>, <<"AppProp", "none">>}

SecondName(sec) == IF sec.kind = "function" THEN sec.name ELSE sec.kind

\* The descriptors the action-creator calls among events returned.
Created(events) ==
    LET made == SelectSeq(events, LAMBDA e : e.op = "create" /\ ~Raising(e.creator))
    IN  [j \in 1..Len(made) |-> ActionCreator(made[j].creator, made[j].args)]

Dispatched(events) ==
    LET sent == SelectSeq(events, LAMBDA e : e.op = "dispatch")
    IN  [j \in 1..Len(sent) |-> [store |-> sent[j].store, action |-> sent[j].action]]

InitWith(rendered) ==
    /\ slots = rendered
    /\ comp = [i \in AllSlots |-> "unmounted"]
    /\ second = [i \in AllSlots |-> NoSecond]
    /\ storeOf = [i \in AllSlots |-> "s1"]
    /\ stateOf = [i \in AllSlots |-> NoState]
    /\ props = [i \in AllSlots |-> NoProps]
    /\ binds = 0
    /\ calls = 0
    /\ created = <<>>
    /\ dispatched = <<>>
    /\ last = NoCall

Init == InitWith({1})

\* export default connect(mapStateToProps, second)(App), rendered under a
\* Provider of store s whose state is st.
Connect(i, c, sec, s, st, hasStore) ==
    /\ i \in slots
    /\ comp[i] = "unmounted"
    /\ <<c, SecondName(sec)>> \in Lessons
    /\ LET got == connect(st, sec, s, hasStore)
       IN  /\ props' = [props EXCEPT ![i] = got.props]
           /\ binds' = binds + got.binds
           /\ created' = created \o Created(got.events)
           /\ dispatched' = dispatched \o Dispatched(got.events)
    /\ comp' = [comp EXCEPT ![i] = c]
    /\ second' = [second EXCEPT ![i] = sec]
    /\ storeOf' = [storeOf EXCEPT ![i] = s]
    /\ stateOf' = [stateOf EXCEPT ![i] = st]
    /\ UNCHANGED <<slots, calls, last>>

\* Counter rendered under a Provider of store s: it is not connected, its
\* hooks read the store.
MountCounter(i, s) ==
    /\ i \in slots
    /\ comp[i] = "unmounted"
    /\ comp' = [comp EXCEPT ![i] = "Counter"]
    /\ storeOf' = [storeOf EXCEPT ![i] = s]
    /\ UNCHANGED <<slots, second, stateOf, props, binds, calls, created, dispatched, last>>

Record(eff, how) ==
    /\ calls' = calls + 1
    /\ created' = created \o Created(eff.events)
    /\ dispatched' = dispatched \o Dispatched(eff.events)
    /\ last' = [kind |-> how.kind, slot |-> how.slot, key |-> how.key,
                args |-> how.args, out |-> how.out,
                events |-> eff.events, completion |-> eff.completion,
                read |-> eff.read]
    /\ UNCHANGED <<slots, comp, second, storeOf, stateOf, props, binds>>

\* The component, or a test, calls the function-valued prop k with args.
InvokeProp(i, k, args, out) ==
    /\ comp[i] \in {"AppStore", "AppProp"}
    /\ calls < MaxCalls
    /\ k \in DOMAIN props[i]
    /\ props[i][k].t = "function"
    /\ LET eff == Call(props[i][k], args, out)
       IN  Record([events |-> eff.events, completion |-> eff.completion, read |-> {k}],
                  [kind |-> "prop", slot |-> i, key |-> k, args |-> args, out |-> out])

\* A click of the component's button runs its handleOnClick.
Click(i, out) ==
    /\ comp[i] \in Components
    /\ calls < MaxCalls
    /\ Record(handleOnClick(comp[i], props[i], storeOf[i], out),
              [kind |-> "click", slot |-> i, key |-> "onClick", args |-> <<>>, out |-> out])

Next ==
    \/ \E i \in AllSlots, c \in {"AppStore", "AppProp"}, sec \in SecondInputs, s \in Stores,
          st \in StoreStates, hasStore \in BOOLEAN :
            Connect(i, c, sec, s, st, hasStore)
    \/ \E i \in AllSlots, s \in Stores : MountCounter(i, s)
    \/ \E i \in AllSlots, k \in {"addItem", "setCount", "incrementCount", "dispatch"},
          args \in ArgLists, out \in DispatchOutcomes :
            InvokeProp(i, k, args, out)
    \/ \E i \in AllSlots, out \in DispatchOutcomes : Click(i, out)

Spec == Init /\ [][Next]_vars

\* Two components, each connected with a mapDispatchToProps that calls
\* bindActionCreators on a map and a store of its own choice, and their
\* props called in any order.
InitPair == InitWith(AllSlots)

NextPair ==
    \/ \E i \in AllSlots, m \in Maps, s \in Stores :
            Connect(i, "AppProp", FunctionSecond("bind", m), s, NoState, FALSE)
    \/ \E i \in AllSlots, k \in {"addItem", "setCount", "incrementCount"},
          args \in ArgLists, out \in DispatchOutcomes :
            InvokeProp(i, k, args, out)

SpecPair == InitPair /\ [][NextPair]_vars

\* One component connected through the binding on a map that holds, next
\* to addItem, an action creator that raises or an entry that is not a
\* function.
FaultyMaps == {[addItem |-> "addItem", failing |-> "failing"],
               [addItem |-> "addItem", setCount |-> "setCount", broken |-> "fortyTwo"]}

NextFaulty ==
    \/ \E m \in FaultyMaps, s \in Stores :
            Connect(1, "AppProp", FunctionSecond("bind", m), s, NoState, FALSE)
    \/ \E m \in FaultyMaps, s \in Stores :
            Connect(1, "AppProp", ObjectSecond(m), s, NoState, FALSE)
    \/ \E k \in {"addItem", "setCount", "failing", "broken"}, args \in ArgLists,
          out \in DispatchOutcomes :
            InvokeProp(1, k, args, out)
    \/ \E out \in DispatchOutcomes : Click(1, out)

SpecFaulty == Init /\ [][NextFaulty]_vars

\* ---------------------------------------------------------------- claims
Connected(i) == comp[i] \in {"AppStore", "AppProp"}

\* Slot i's props come from bind(M, D): mapDispatchToProps called
\* bindActionCreators(M, dispatch).
ViaBind(i) == Connected(i) /\ second[i] \in {FunctionSecond("bind", m) : m \in Maps}

\* The latest invocation called a wrapper of bind(M, D) by its key.
LastBound ==
    /\ last.kind = "prop"
    /\ ViaBind(last.slot)
    /\ last.key \in DOMAIN second[last.slot].map

LastCreator == second[last.slot].map[last.key]

LastDescriptor == ActionCreator(LastCreator, last.args)

\* C1: one invocation of bind(M, D)[k](A) calls M[k] exactly once with A,
\* then calls D exactly once, with the descriptor M[k](A) returned.
C1_WrapperCallsCreatorThenDispatch ==
    LastBound =>
        /\ last.events =
              <<[op |-> "create", creator |-> LastCreator, args |-> last.args],
                [op |-> "dispatch", store |-> storeOf[last.slot],
                 action |-> LastDescriptor]>>
        /\ created # <<>> /\ created[Len(created)] = LastDescriptor
        /\ dispatched # <<>>
        /\ dispatched[Len(dispatched)] =
              [store |-> storeOf[last.slot], action |-> LastDescriptor]

\* bound.addItem() of M = {addItem} has dispatched {type: "ADD_ITEM"} once.
C1_Witness ==
    /\ LastBound
    /\ second[last.slot].map = ItemsMap
    /\ last.key = "addItem"
    /\ last.args = <<>>
    /\ dispatched = <<[store |-> storeOf[last.slot],
                       action |-> [t |-> "object", type |-> "ADD_ITEM"]]>>

\* C2: the wrapper returns exactly what D returned for the call: the action,
\* nothing, or the pending handle, whichever D gave.
C2_WrapperReturnsDispatchResult ==
    (LastBound /\ last.out # "throw") =>
        last.completion =
            Return(CASE last.out = "action" -> LastDescriptor
                     [] last.out = "undefined" -> Undefined
                     [] last.out = "promise" -> [t |-> "promise", of |-> LastDescriptor])

\* A wrapper has handed back the pending handle its dispatch returned.
C2_Witness ==
    /\ LastBound
    /\ last.out = "promise"
    /\ last.completion.c = "return"
    /\ last.completion.v.t = "promise"

\* The function-valued props of slot i.
FunctionKeys(i) == {k \in DOMAIN props[i] : props[i][k].t = "function"}

\* C3: the keys of bind(M, D) are the keys of M, each bound to the wrapper
\* of its own action creator: none dropped, added or renamed.
C3_BindKeepsKeys ==
    \A i \in AllSlots :
        ViaBind(i) =>
            /\ FunctionKeys(i) = DOMAIN second[i].map
            /\ \A k \in DOMAIN second[i].map :
                  props[i][k] = Bound(second[i].map[k], DispatchFn(storeOf[i]))

\* A two-key map has been bound and one of its wrappers called.
C3_Witness ==
    /\ LastBound
    /\ Cardinality(DOMAIN second[last.slot].map) = 2
    /\ last.key = "setCount"

\* The props the function dispatch => bind(M, dispatch) gives for slot i.
FunctionModeProps(i) ==
    mapDispatchToProps("bind", second[i].map, DispatchFn(storeOf[i])).props

ViaObject(i) == Connected(i) /\ second[i].kind = "object"

\* C4: handing connect the raw map M gives props that, for every key,
\* argument list and dispatch outcome, make the same calls and return the
\* same value as the props of the function dispatch => bind(M, dispatch).
C4_ObjectModeIsFunctionMode ==
    /\ \A i \in AllSlots :
          ViaObject(i) =>
              /\ FunctionKeys(i) = DOMAIN FunctionModeProps(i)
              /\ \A k \in FunctionKeys(i), args \in ArgLists, out \in DispatchOutcomes :
                    Call(props[i][k], args, out)
                        = Call(FunctionModeProps(i)[k], args, out)
    /\ (last.kind = "prop" /\ ViaObject(last.slot)) =>
          LET eff == Call(FunctionModeProps(last.slot)[last.key], last.args, last.out)
          IN  /\ last.events = eff.events
              /\ last.completion = eff.completion

\* A prop of a component connected with the raw map has been called with
\* two arguments.
C4_Witness ==
    /\ last.kind = "prop"
    /\ ViaObject(last.slot)
    /\ Len(last.args) = 2
    /\ Len(last.events) = 2

ViaHandWritten(i) ==
    Connected(i) /\ second[i] = FunctionSecond("handwritten", ItemsMap)

\* The addItem prop connect(state => ({ items: state.items }), { addItem })
\* gives on slot i's store.
ObjectFormAddItem(i) ==
    dispatchProps(ObjectSecond(ItemsMap), DispatchFn(storeOf[i])).props.addItem

\* C5: the hand-written mapDispatchToProps is equivalent to the object form:
\* every invocation of the addItem prop makes the same action-creator call
\* with the same arguments, the same dispatch call, and gives the caller
\* the same result.
C5_HandWrittenIsObjectForm ==
    (last.kind = "prop" /\ ViaHandWritten(last.slot) /\ last.key = "addItem") =>
        LET eff == Call(ObjectFormAddItem(last.slot), last.args, last.out)
        IN  /\ last.events = eff.events
            /\ last.completion = eff.completion

ViaBinder(i) == ViaBind(i) \/ ViaObject(i)

\* C6: with no second argument the props hold dispatch, the store's own
\* dispatch function itself and nothing bound, and the binder has not run;
\* with a map or a binding function the props hold the bound actions and
\* no dispatch.
C6_DefaultDispatchFallback ==
    /\ \A i \in AllSlots :
          (Connected(i) /\ second[i] = NoSecond) =>
              /\ FunctionKeys(i) = {"dispatch"}
              /\ props[i]["dispatch"] = DispatchFn(storeOf[i])
    /\ \A i \in AllSlots :
          ViaBinder(i) =>
              /\ "dispatch" \notin DOMAIN props[i]
              /\ FunctionKeys(i) = DOMAIN second[i].map
              /\ \A k \in FunctionKeys(i) : props[i][k].kind = "bound"
    /\ binds = Cardinality({i \in AllSlots : ViaBinder(i)})
    /\ (last.kind = "prop" /\ second[last.slot] = NoSecond) =>
          last.events = <<[op |-> "dispatch", store |-> storeOf[last.slot],
                           action |-> Param(last.args, 1)]>>

\* this.props.dispatch({ type: 'INCREASE_COUNT' }) on a component connected
\* without a second argument.
C6_Witness ==
    /\ last.kind = "prop"
    /\ Connected(last.slot)
    /\ second[last.slot] = NoSecond
    /\ last.key = "dispatch"
    /\ binds = 0
    /\ dispatched = <<[store |-> storeOf[last.slot],
                       action |-> [t |-> "object", type |-> "INCREASE_COUNT"]]>>

\* C7: when D raises, the wrapper raises that same error, having called
\* M[k] exactly once and D exactly once.
C7_DispatchErrorPropagates ==
    (LastBound /\ last.out = "throw") =>
        /\ last.completion = Throw(DispatchError)
        /\ Len(Created(last.events)) = 1
        /\ Len(Dispatched(last.events)) = 1
        /\ Created(last.events)[1] = LastDescriptor

\* A wrapper's dispatch has raised.
C7_Witness ==
    /\ LastBound
    /\ last.out = "throw"
    /\ last.completion.c = "throw"
    /\ Len(dispatched) = 1

\* Slot i holds the demo App connected with a mapDispatchToProps that
\* bundles dispatch into the addItem prop.
DemoApp(i) ==
    /\ Connected(i)
    /\ second[i] \in {FunctionSecond("bind", ItemsMap),
                      FunctionSecond("handwritten", ItemsMap)}

\* C8: every click of the demo App runs handleOnClick, which calls the
\* addItem prop and so dispatches addItem()'s descriptor exactly once; the
\* handler does not go through props.store.
C8_ClickCallsAddItemProp ==
    (last.kind = "click" /\ DemoApp(last.slot)) =>
        /\ last.read = {"addItem"}
        /\ Dispatched(last.events) =
              <<[store |-> storeOf[last.slot], action |-> addItem(<<>>)]>>

IncrementAction == [t |-> "object", type |-> "count/increment"]

\* C9: every click of Counter's button calls the dispatch of useDispatch
\* exactly once with { type: "count/increment" }; after n clicks exactly n
\* such descriptors have been dispatched, and none without a click.
C9_CounterClicksDispatchIncrement ==
    /\ (last.kind = "click" /\ comp[last.slot] = "Counter") =>
          last.events =
              <<[op |-> "create", creator |-> "incrementCount", args |-> <<>>],
                [op |-> "dispatch", store |-> storeOf[last.slot],
                 action |-> IncrementAction]>>
    /\ (\A i \in slots : comp[i] \in {"unmounted", "Counter"}) =>
          /\ Len(dispatched) = calls
          /\ \A j \in 1..Len(dispatched) :
                /\ dispatched[j].action = IncrementAction
                /\ \E i \in slots : comp[i] = "Counter" /\ dispatched[j].store = storeOf[i]

\* Counter's button has been clicked twice.
C9_Witness ==
    /\ last.kind = "click"
    /\ comp[last.slot] = "Counter"
    /\ calls = 2
    /\ Len(dispatched) = 2

\* C10: a wrapper hands every argument it receives, unchanged and in order,
\* to its action creator, whatever their number; bound.setCount(5)
\* dispatches { type: "SET_COUNT", payload: 5 }.
C10_WrapperForwardsArguments ==
    LastBound =>
        /\ last.events # <<>>
        /\ last.events[1].op = "create"
        /\ last.events[1].args = last.args
        /\ (LastCreator = "setCount" /\ last.args = <<Num(5)>>) =>
              dispatched[Len(dispatched)].action =
                  [t |-> "object", type |-> "SET_COUNT", payload |-> Num(5)]

\* A wrapper has been called with two arguments.
C10_Witness ==
    /\ LastBound
    /\ LastCreator = "setCount"
    /\ last.args = <<Num(5), Num(7)>>
    /\ Len(dispatched) = 1
    /\ dispatched[1].action.payload = Num(5)

\* Every invocation so far has called a bound wrapper: each rendered
\* component is the rewritten App with props bound from a map that holds
\* addItem, so that its clicks and its prop calls all go through a wrapper.
OnlyWrapperCalls ==
    \A i \in slots :
        \/ comp[i] = "unmounted"
        \/ /\ comp[i] = "AppProp"
           /\ ViaBinder(i)
           /\ "addItem" \in DOMAIN second[i].map

\* C11: after n invocations of bound wrappers the action creators have
\* been called n times and D n times, and the i-th dispatched descriptor is
\* the result of the i-th action-creator call.
C11_NoCachingOfDescriptors ==
    OnlyWrapperCalls =>
        /\ Len(created) = calls
        /\ Len(dispatched) = calls
        /\ \A j \in 1..Len(dispatched) : dispatched[j].action = created[j]

\* Two wrapper invocations have dispatched two different descriptors.
C11_Witness ==
    /\ OnlyWrapperCalls
    /\ calls = 2
    /\ Len(dispatched) = 2
    /\ dispatched[1].action # dispatched[2].action

\* C12: binding calls no action creator and does not call D: before the
\* first invocation nothing has been created or dispatched, and at any time
\* there are no more creator calls and no more dispatches than invocations.
C12_BindingIsEffectFree ==
    /\ calls = 0 => created = <<>> /\ dispatched = <<>>
    /\ Len(created) <= calls
    /\ Len(dispatched) <= calls

\* bindActionCreators has run and no wrapper has been invoked yet.
C12_Witness ==
    /\ \E i \in slots : ViaBind(i)
    /\ binds = 1
    /\ calls = 0
    /\ created = <<>>
    /\ dispatched = <<>>

\* Slot i's props come from the mapDispatchToProps that returns the action
\* creators as they are.
ViaUnbound(i) ==
    Connected(i) /\ second[i] \in {FunctionSecond("unbound", m) : m \in Maps}

\* C14: with the unbound variant a prop is the action creator itself:
\* calling it makes the descriptor, returns it and calls no dispatch, for
\* every argument list and whatever dispatch would do; so does a click of
\* the component whose handler calls this.props.addItem().
C14_UnboundPropNeverDispatches ==
    /\ \A i \in AllSlots :
          ViaUnbound(i) =>
              \A k \in DOMAIN second[i].map, args \in ArgLists, out \in DispatchOutcomes :
                  /\ props[i][k] = Creator(second[i].map[k])
                  /\ Call(props[i][k], args, out) =
                        [events |-> <<[op |-> "create", creator |-> second[i].map[k],
                                       args |-> args]>>,
                         completion |-> Return(ActionCreator(second[i].map[k], args))]
    /\ (last.kind = "prop" /\ ViaUnbound(last.slot)
            /\ last.key \in DOMAIN second[last.slot].map) =>
          /\ Dispatched(last.events) = <<>>
          /\ Created(last.events) = <<LastDescriptor>>
          /\ last.completion = Return(LastDescriptor)
    /\ (last.kind = "click" /\ ViaUnbound(last.slot) /\ comp[last.slot] = "AppProp"
            /\ "addItem" \in DOMAIN second[last.slot].map) =>
          /\ Dispatched(last.events) = <<>>
          /\ Created(last.events) = <<addItem(<<>>)>>

\* props.addItem() of the unbound variant has returned { type: 'ADD_ITEM' }
\* and nothing has been dispatched.
C14_Witness ==
    /\ last.kind = "prop"
    /\ ViaUnbound(last.slot)
    /\ last.key = "addItem"
    /\ last.completion = Return(addItem(<<>>))
    /\ created = <<addItem(<<>>)>>
    /\ dispatched = <<>>

\* The props of slot i that are neither functions nor the store reference
\* the parent passes: the ones mapStateToProps gave.
StateKeys(i) == (DOMAIN props[i] \ FunctionKeys(i)) \ {"store"}

\* C18: mapStateToProps returns exactly { items: state.items } for every
\* state: the connected component's items prop is the items of the state
\* connect() read, no other field of the state becomes a prop, components
\* connected on equal states get equal props from it, the state read is
\* left as it was, and connecting dispatches nothing.
C18_MapStateToPropsProjectsItems ==
    /\ \A i \in AllSlots :
          Connected(i) =>
              /\ StateKeys(i) = {"items"}
              /\ props[i].items = [t |-> "array", elems |-> stateOf[i].items]
              /\ props[i].items = mapStateToProps(stateOf[i]).items
              /\ stateOf[i] \in StoreStates
    /\ \A i, j \in AllSlots :
          (Connected(i) /\ Connected(j) /\ stateOf[i] = stateOf[j]) =>
              props[i].items = props[j].items
    /\ calls = 0 => dispatched = <<>>

\* A component has been connected on a state that holds more than items.
C18_Witness ==
    \E i \in slots :
        /\ Connected(i)
        /\ DOMAIN stateOf[i] = {"items", "count"}
        /\ props[i].items = [t |-> "array", elems |-> <<"item">>]
        /\ "count" \notin DOMAIN props[i]

\* Slots i and j hold the results of two calls bind(M, D) with the same
\* map and the same dispatch.
SameBinding(i, j) ==
    /\ i # j
    /\ ViaBind(i) /\ ViaBind(j)
    /\ second[i] = second[j]
    /\ storeOf[i] = storeOf[j]

BindContract(creator, s, args, out) ==
    [events |-> <<[op |-> "create", creator |-> creator, args |-> args],
                  [op |-> "dispatch", store |-> s,
                   action |-> ActionCreator(creator, args)]>>,
     completion |-> dispatch(s, ActionCreator(creator, args), out).completion]

\* C17: a wrapper of one binding calls only its own map's creator and only
\* its own dispatch, and whatever has been invoked so far, every wrapper of
\* every binding still is the wrapper of its own creator and dispatch and
\* behaves by the contract.
C17_BindingsAreIndependent ==
    /\ LastBound =>
          /\ \A e \in {last.events[n] : n \in 1..Len(last.events)} :
                /\ e.op = "create" => e.creator = LastCreator
                /\ e.op = "dispatch" => e.store = storeOf[last.slot]
          /\ Len(last.events) = 2
    /\ \A j \in AllSlots :
          ViaBind(j) =>
              \A k \in DOMAIN second[j].map :
                  /\ k \in DOMAIN props[j]
                  /\ props[j][k] = Bound(second[j].map[k], DispatchFn(storeOf[j]))
                  /\ \A args \in ArgLists, out \in DispatchOutcomes :
                        Call(props[j][k], args, out) =
                            BindContract(second[j].map[k], storeOf[j], args, out)

\* Two bindings of different maps to different stores, and one wrapper of
\* each invoked: each dispatch went to its own store.
C17_Witness ==
    /\ ViaBind(1) /\ ViaBind(2)
    /\ storeOf[1] # storeOf[2]
    /\ second[1] # second[2]
    /\ calls = 2
    /\ Len(dispatched) = 2
    /\ dispatched[1].store = storeOf[2]
    /\ dispatched[2].store = storeOf[1]
    /\ last.slot = 1

\* Slot i's props come from the binding on a map with a faulty entry.
ViaFaulty(i) ==
    /\ Connected(i)
    /\ second[i] \in {FunctionSecond("bind", m) : m \in FaultyMaps}
                     \cup {ObjectSecond(m) : m \in FaultyMaps}

\* The keys of slot i's map whose action creators return a descriptor.
SoundKeys(i) ==
    {k \in DOMAIN second[i].map :
        Callable(second[i].map[k]) /\ ~Raising(second[i].map[k])}

\* Every wrapper of a sound key of slot i behaves by the contract.
SoundKeysKeepContract(i) ==
    \A k \in SoundKeys(i), args \in ArgLists, out \in DispatchOutcomes :
        /\ k \in FunctionKeys(i)
        /\ Call(props[i][k], args, out) =
              BindContract(second[i].map[k], storeOf[i], args, out)

\* The latest invocation called slot's prop of a key of its faulty map.
LastFaulty ==
    /\ last.kind = "prop"
    /\ ViaFaulty(last.slot)
    /\ last.key \in DOMAIN second[last.slot].map

\* C15: when the action creator raises, the wrapper raises that same error
\* after the one creator call and dispatch is not called; whatever failed
\* before, every wrapper of a sound key goes on behaving by the contract,
\* and the failed calls have left nothing in the logs.
C15_CreatorErrorPropagates ==
    /\ (LastFaulty /\ Raising(LastCreator)) =>
          /\ last.events = <<[op |-> "create", creator |-> LastCreator,
                              args |-> last.args]>>
          /\ last.completion = Throw(CreatorError)
          /\ Dispatched(last.events) = <<>>
    /\ \A i \in AllSlots :
          ViaFaulty(i) =>
              /\ \A k \in DOMAIN second[i].map, args \in ArgLists,
                    out \in DispatchOutcomes :
                      Raising(second[i].map[k]) =>
                          Call(props[i][k], args, out) =
                              [events |-> <<[op |-> "create",
                                             creator |-> second[i].map[k],
                                             args |-> args]>>,
                               completion |-> Throw(CreatorError)]
              /\ SoundKeysKeepContract(i)
    /\ (LastFaulty /\ last.key \in SoundKeys(last.slot)) =>
          LET eff == BindContract(LastCreator, storeOf[last.slot], last.args, last.out)
          IN  /\ last.events = eff.events
              /\ last.completion = eff.completion
    /\ (\E i \in slots : ViaFaulty(i)) =>
          /\ Len(dispatched) = Len(created)
          /\ \A n \in 1..Len(dispatched) : dispatched[n].action = created[n]

\* The raising action creator has been invoked through its wrapper, and the
\* invocation of addItem after it has dispatched as if nothing had failed.
C15_Witness ==
    /\ ViaFaulty(1)
    /\ "failing" \in DOMAIN second[1].map
    /\ calls = 2
    /\ LastFaulty
    /\ last.key = "addItem"
    /\ last.completion = Return(addItem(<<>>))
    /\ dispatched = <<[store |-> storeOf[1], action |-> addItem(<<>>)]>>

\* What calling slot i's prop k does; a prop that is not there is undefined.
CallProp(i, k, args, out) ==
    Call(IF k \in DOMAIN props[i] THEN props[i][k] ELSE Undefined, args, out)

\* C16: when an entry of the map is not a function, binding succeeds and
\* invoking the prop of that key fails with a TypeError before anything is
\* called; dispatch only ever receives descriptors made by the callable
\* entries, and the wrappers of the sound keys behave by the contract.
C16_NonCallableEntryFailsWithoutDispatch ==
    /\ \A i \in AllSlots :
          ViaFaulty(i) =>
              /\ \A k \in DOMAIN second[i].map, args \in ArgLists,
                    out \in DispatchOutcomes :
                      ~Callable(second[i].map[k]) =>
                          CallProp(i, k, args, out) =
                              [events |-> <<>>, completion |-> Throw(TypeError)]
              /\ SoundKeysKeepContract(i)
              /\ \A n \in 1..Len(dispatched) :
                    \E k \in SoundKeys(i), args \in ArgLists :
                        dispatched[n].action = ActionCreator(second[i].map[k], args)
    /\ (LastFaulty /\ ~Callable(LastCreator)) =>
          /\ last.events = <<>>
          /\ last.completion = Throw(TypeError)

\* The prop of the entry that is not a function has been invoked and has
\* failed, after a wrapper of a callable key had dispatched.
C16_Witness ==
    /\ ViaFaulty(1)
    /\ calls = 2
    /\ LastFaulty
    /\ last.key = "broken"
    /\ last.completion = Throw(TypeError)
    /\ Len(dispatched) = 1
    /\ binds = 1

====
